---- MODULE Spec2Model ----
(***************************************************************************)
(* SimpleGraphDatabase (src/src/knowledge_graph/simple_graph.py): an       *)
(* in-memory property graph with add_node, add_relationship, get_node,     *)
(* get_relationships, query, find_paths, to_json and from_json.            *)
(*                                                                         *)
(* Python values are represented as follows.                               *)
(*   dict (insertion ordered)  a sequence of <<key, value>> pairs with     *)
(*                             pairwise distinct keys                      *)
(*   dict with literal keys    a record (node and relationship records,    *)
(*                             the graph_dict of to_json)                  *)
(*   list                      a sequence                                  *)
(*   set                       a set                                       *)
(*   str                       a string                                    *)
(*   exception                 the name of its class, "none" for a return  *)
(*   None                      the record PyNone as a result; as an        *)
(*                             Optional[str] argument the empty sequence,  *)
(*                             the string s being <<s>>                    *)
(* A JSON text is the document it denotes, or the malformed text: the json *)
(* library is not part of the repository, and on the values used here      *)
(* (strings, lists, dicts with string keys) json.loads(json.dumps(v)) = v. *)
(***************************************************************************)
EXTENDS Integers, Sequences, FiniteSets, TLC

VARIABLES
    nodes,          \* self.nodes: dict id -> node record
    relationships,  \* self.relationships: list of relationship records
    call,           \* the last call made on the store: op, args, raised, result
    search          \* the find_paths call run call by call: its arguments,
                    \* the calls of dfs on the stack, the objects they
                    \* share, and what it returns (all_paths) or raises

vars == <<nodes, relationships, call, search>>

---------------------------------------------------------------------------
(* Bounds of the model *)

\* longest relationship list built in the store life-cycle specification
MaxRels == 2
\* longest relationship list of the graphs find_paths is applied to
MaxPathRels == 3
\* largest max_depth passed to find_paths
MaxDepthArg == 2
\* longest relationship_path passed to query
MaxQueryPath == 2
\* longest relationship list of the graphs query is applied to
MaxQueryRels == 2
\* longest relationship list of the graphs find_paths is run on call by call
MaxSearchRels == 2

\* find_paths: max_depth: int = 3
DefaultMaxDepth == 3

NodeIds == {"a", "b"}
PathIds == {"a", "b", "c"}
RelTypes == {"T"}
QueryTypes == {"FILED", "COVERED_BY"}
LabelLists == {<<"Policy", "Policy">>, <<"Policy", "Claim">>}
\* the labels of the nodes of the texts passed to from_json
DocLabels == <<"Policy", "Claim">>
NodeProps == <<<<"name", "x">>>>
RelProps == <<>>

NoException == "none"

---------------------------------------------------------------------------
(* Python dict *)

DictHas(d, k) == \E i \in 1..Len(d) : d[i][1] = k

DictGet(d, k) == d[CHOOSE i \in 1..Len(d) : d[i][1] = k][2]

\* an assignment that leaves the value of an existing key, like
\* d.setdefault(k, v)
DictSet_keeps_first(d, k, v) == IF DictHas(d, k) THEN d ELSE Append(d, <<k, v>>)

\* d[k] = v: an existing key keeps its position, a new key goes last
DictSet(d, k, v) ==
    IF DictHas(d, k)
    THEN [i \in 1..Len(d) |-> IF d[i][1] = k THEN <<k, v>> ELSE d[i]]
    ELSE Append(d, <<k, v>>)

DictKeys(d) == {d[i][1] : i \in 1..Len(d)}

\* list(d.values())
DictValues(d) == [i \in 1..Len(d) |-> d[i][2]]

---------------------------------------------------------------------------
(* The store: self = [nodes, relationships] *)

Self == [nodes |-> nodes, relationships |-> relationships]

EmptyStore == [nodes |-> <<>>, relationships |-> <<>>]

Outcome(self, raised, result) ==
    [nodes |-> self.nodes, relationships |-> self.relationships,
     raised |-> raised, result |-> result]

\* add_node keeping the record an id already has
add_node_keeps_first(self, node_id, labels, properties) ==
    Outcome([self EXCEPT !.nodes =
                 IF DictHas(@, node_id) THEN @
                 ELSE DictSet(@, node_id, [id |-> node_id, labels |-> labels,
                                           properties |-> properties])],
            NoException, node_id)

add_node(self, node_id, labels, properties) ==
    Outcome([self EXCEPT !.nodes =
                 DictSet(@, node_id, [id |-> node_id, labels |-> labels,
                                      properties |-> properties])],
            NoException, node_id)

\* the check of add_relationship with the test of the target left out
add_relationship_source_only(self, source_id, target_id, rel_type, properties) ==
    IF ~DictHas(self.nodes, source_id)
    THEN Outcome(self, "ValueError", "Source or target node does not exist")
    ELSE Outcome([self EXCEPT !.relationships =
                      Append(@, [source |-> source_id, target |-> target_id,
                                 type |-> rel_type, properties |-> properties])],
                 NoException, Len(self.relationships))

\* add_relationship returning the length of the list after the append
add_relationship_one_based(self, source_id, target_id, rel_type, properties) ==
    IF ~DictHas(self.nodes, source_id) \/ ~DictHas(self.nodes, target_id)
    THEN Outcome(self, "ValueError", "Source or target node does not exist")
    ELSE LET relationship == [source |-> source_id, target |-> target_id,
                              type |-> rel_type, properties |-> properties]
             appended == Append(self.relationships, relationship)
         IN Outcome([self EXCEPT !.relationships = appended],
                    NoException, Len(appended))

add_relationship(self, source_id, target_id, rel_type, properties) ==
    IF ~DictHas(self.nodes, source_id) \/ ~DictHas(self.nodes, target_id)
    THEN Outcome(self, "ValueError", "Source or target node does not exist")
    ELSE LET relationship == [source |-> source_id, target |-> target_id,
                              type |-> rel_type, properties |-> properties]
             appended == Append(self.relationships, relationship)
         IN Outcome([self EXCEPT !.relationships = appended],
                    NoException, Len(appended) - 1)

---------------------------------------------------------------------------
(* get_node, get_relationships, query *)

\* None
PyNone == [py |-> "None"]

\* an Optional[str] argument: <<>> for None, <<s>> for the string s
NoType == <<>>

\* get_node taking the record out of the dict, like self.nodes.pop
get_node_pops(self, node_id) ==
    Outcome([self EXCEPT !.nodes =
                 SelectSeq(@, LAMBDA item : item[1] # node_id)],
            NoException,
            IF DictHas(self.nodes, node_id) THEN DictGet(self.nodes, node_id)
            ELSE PyNone)

\* self.nodes.get(node_id)
get_node(self, node_id) ==
    Outcome(self, NoException,
            IF DictHas(self.nodes, node_id) THEN DictGet(self.nodes, node_id)
            ELSE PyNone)

\* the test of get_relationships on one end only
IncidentTo_source_only(rel, node_id) == rel.source = node_id

\* rel["source"] == node_id or rel["target"] == node_id
IncidentTo(rel, node_id) == rel.source = node_id \/ rel.target = node_id

\* rel_type is None or rel["type"] == rel_type
TypeSelected(rel, rel_type) == rel_type = NoType \/ rel.type = rel_type[1]

\* the two tests of get_relationships on one relationship, with the
\* KeyError of a record that lacks a key the tests read
RelSelected(rel, node_id, rel_type) ==
    IF "source" \notin DOMAIN rel THEN [raised |-> "KeyError"]
    ELSE IF rel.source # node_id /\ "target" \notin DOMAIN rel
    THEN [raised |-> "KeyError"]
    ELSE IF ~IncidentTo(rel, node_id)
    THEN [raised |-> NoException, value |-> FALSE]
    ELSE IF rel_type # NoType /\ "type" \notin DOMAIN rel
    THEN [raised |-> "KeyError"]
    ELSE [raised |-> NoException, value |-> TypeSelected(rel, rel_type)]

\* for rel in self.relationships, from the i-th on
RECURSIVE CollectRelationships(_, _, _, _, _)
CollectRelationships(rels, i, node_id, rel_type, acc) ==
    IF i > Len(rels) THEN [raised |-> NoException, value |-> acc]
    ELSE LET sel == RelSelected(rels[i], node_id, rel_type) IN
         IF sel.raised # NoException THEN [raised |-> sel.raised]
         ELSE CollectRelationships(rels, i + 1, node_id, rel_type,
                  IF sel.value THEN Append(acc, rels[i]) ELSE acc)

get_relationships(self, node_id, rel_type) ==
    LET found == CollectRelationships(self.relationships, 1, node_id,
                                      rel_type, <<>>)
    IN IF found.raised # NoException THEN Outcome(self, found.raised, "")
       ELSE Outcome(self, NoException, found.value)

\* the test of query without the comparison of the type
QueryMatch_any_type(rel, node_id, rel_type) == rel.source = node_id

\* rel["source"] == node_id and rel["type"] == rel_type
QueryMatch(rel, node_id, rel_type) ==
    rel.source = node_id /\ rel.type = rel_type

\* the test of query on one relationship, with the KeyError of a record
\* that lacks a key the test reads
QueryTest(rel, node_id, rel_type) ==
    IF "source" \notin DOMAIN rel THEN [raised |-> "KeyError"]
    ELSE IF rel.source = node_id /\ "type" \notin DOMAIN rel
    THEN [raised |-> "KeyError"]
    ELSE IF ~QueryMatch(rel, node_id, rel_type)
    THEN [raised |-> NoException, value |-> FALSE]
    ELSE IF "target" \notin DOMAIN rel THEN [raised |-> "KeyError"]
    ELSE [raised |-> NoException, value |-> TRUE]

\* for rel in self.relationships, from the i-th on: next_nodes grows by the
\* targets of the relationships of node_id of type rel_type
RECURSIVE ScanTargets(_, _, _, _, _)
ScanTargets(rels, i, node_id, rel_type, next_nodes) ==
    IF i > Len(rels) THEN [raised |-> NoException, value |-> next_nodes]
    ELSE LET test == QueryTest(rels[i], node_id, rel_type) IN
         IF test.raised # NoException THEN [raised |-> test.raised]
         ELSE ScanTargets(rels, i + 1, node_id, rel_type,
                  IF test.value THEN Append(next_nodes, rels[i].target)
                  ELSE next_nodes)

\* for node_id in current_nodes, from the k-th on
RECURSIVE ScanFrontier(_, _, _, _, _)
ScanFrontier(rels, current_nodes, k, rel_type, next_nodes) ==
    IF k > Len(current_nodes)
    THEN [raised |-> NoException, value |-> next_nodes]
    ELSE LET grown == ScanTargets(rels, 1, current_nodes[k], rel_type,
                                  next_nodes)
         IN IF grown.raised # NoException THEN grown
            ELSE ScanFrontier(rels, current_nodes, k + 1, rel_type,
                              grown.value)

\* for rel_type in relationship_path, from the j-th on; break when the
\* frontier is empty
RECURSIVE FollowPath(_, _, _, _)
FollowPath(rels, current_nodes, relationship_path, j) ==
    IF j > Len(relationship_path)
    THEN [raised |-> NoException, value |-> current_nodes]
    ELSE LET next == ScanFrontier(rels, current_nodes, 1,
                                  relationship_path[j], <<>>)
         IN IF next.raised # NoException THEN next
            ELSE IF next.value = <<>> THEN next
            ELSE FollowPath(rels, next.value, relationship_path, j + 1)

\* [self.nodes[node_id] for node_id in current_nodes if node_id in self.nodes]
RECURSIVE NodesOf(_, _, _)
NodesOf(self, current_nodes, k) ==
    IF k > Len(current_nodes) THEN <<>>
    ELSE IF DictHas(self.nodes, current_nodes[k])
    THEN <<DictGet(self.nodes, current_nodes[k])>>
             \o NodesOf(self, current_nodes, k + 1)
    ELSE NodesOf(self, current_nodes, k + 1)

\* query with the frontier empty at the start
query_from_nothing(self, start_node_id, relationship_path) ==
    LET last == FollowPath(self.relationships, <<>>, relationship_path, 1)
    IN IF last.raised # NoException THEN Outcome(self, last.raised, "")
       ELSE Outcome(self, NoException, NodesOf(self, last.value, 1))

query(self, start_node_id, relationship_path) ==
    LET last == FollowPath(self.relationships, <<start_node_id>>,
                           relationship_path, 1)
    IN IF last.raised # NoException THEN Outcome(self, last.raised, "")
       ELSE Outcome(self, NoException, NodesOf(self, last.value, 1))

---------------------------------------------------------------------------
(* JSON *)

MalformedText == [wf |-> FALSE]

json_dumps(obj) == [wf |-> TRUE, value |-> obj]

json_loads(text) ==
    IF text.wf
    THEN [raised |-> NoException, value |-> text.value]
    ELSE [raised |-> "JSONDecodeError"]

PyDict(items) == [type |-> "dict", items |-> items]
PyList(items) == [type |-> "list", items |-> items]

\* obj[key] for a string key
Subscript(obj, key) ==
    IF obj.type # "dict" THEN [raised |-> "TypeError"]
    ELSE IF key \notin DOMAIN obj.items THEN [raised |-> "KeyError"]
    ELSE [raised |-> NoException, value |-> obj.items[key]]

\* to_json with the relationships left out of the document
to_json_nodes_only(self) ==
    json_dumps(PyDict([nodes |-> DictValues(self.nodes),
                       relationships |-> <<>>]))

to_json(self) ==
    LET graph_dict == PyDict([nodes |-> DictValues(self.nodes),
                              relationships |-> self.relationships])
    IN json_dumps(graph_dict)

\* for node in graph_dict["nodes"]: self.nodes[node["id"]] = node
RECURSIVE LoadNodes(_, _, _)
LoadNodes(acc, nodeList, i) ==
    IF i > Len(nodeList) THEN [nodes |-> acc, raised |-> NoException]
    ELSE LET node == nodeList[i] IN
         IF "id" \notin DOMAIN node
         THEN [nodes |-> acc, raised |-> "KeyError"]
         ELSE LoadNodes(DictSet(acc, node.id, node), nodeList, i + 1)

\* clearing the relationship list along with the node dict
Cleared_both(self) == [nodes |-> <<>>, relationships |-> <<>>]

\* self.nodes = {}
Cleared(self) == [self EXCEPT !.nodes = <<>>]

from_json(self, json_str) ==
    LET loaded == json_loads(json_str) IN
    IF loaded.raised # NoException THEN Outcome(self, loaded.raised, "")
    ELSE
    LET graph_dict == loaded.value
        cleared == Cleared(self)
        nodeList == Subscript(graph_dict, "nodes")
    IN
    IF nodeList.raised # NoException THEN Outcome(cleared, nodeList.raised, "")
    ELSE
    LET filled == LoadNodes(<<>>, nodeList.value, 1)
        withNodes == [cleared EXCEPT !.nodes = filled.nodes]
        relList == Subscript(graph_dict, "relationships")
    IN
    IF filled.raised # NoException THEN Outcome(withNodes, filled.raised, "")
    ELSE IF relList.raised # NoException THEN Outcome(withNodes, relList.raised, "")
    ELSE Outcome([withNodes EXCEPT !.relationships = relList.value],
                 NoException, "")

---------------------------------------------------------------------------
(* find_paths *)

\* the depth test off by one
DepthExceeded_one_late(depth, max_depth) == depth > max_depth + 1

\* if depth > max_depth: return
DepthExceeded(depth, max_depth) == depth > max_depth

\* the test of the outgoing loop raises KeyError: the relationship object
\* has no "source", or no "target" where the test comes to read it
OutgoingRaises(rel, current_id) ==
    \/ "source" \notin DOMAIN rel
    \/ rel.source = current_id /\ "target" \notin DOMAIN rel

\* the test of the incoming loop raises KeyError
IncomingRaises(rel, current_id) ==
    \/ "target" \notin DOMAIN rel
    \/ rel.target = current_id /\ "source" \notin DOMAIN rel

\* rel["source"] == current_id and rel["target"] not in visited
OutgoingCandidate(rel, current_id, visited) ==
    rel.source = current_id /\ rel.target \notin visited

\* rel["target"] == current_id and rel["source"] not in visited
IncomingCandidate(rel, current_id, visited) ==
    rel.target = current_id /\ rel.source \notin visited

\* the outgoing step written from the target back to the current node
OutgoingStep_backwards(current_id, rel) == <<rel.target, rel.type, current_id>>

\* (current_id, rel["type"], rel["target"])
OutgoingStep(current_id, rel) == <<current_id, rel.type, rel.target>>

\* the incoming step labelled like an outgoing one
IncomingStep_plain_label(current_id, rel) ==
    <<current_id, rel.type, rel.source>>

IncomingStep(current_id, rel) ==
    <<current_id, "INVERSE_" \o rel.type, rel.source>>

\* visited.add left out
Mark_skipped(st, current_id) == st

\* visited.add(current_id)
Mark(st, current_id) == [st EXCEPT !.visited = @ \cup {current_id}]

\* the node stays in visited when the call returns
Unmark_keeps(st, current_id) == st

\* visited.remove(current_id): KeyError when current_id is not in the set
Unmark(st, current_id) ==
    IF current_id \in st.visited
    THEN [st EXCEPT !.visited = @ \ {current_id}]
    ELSE [st EXCEPT !.raised = "KeyError"]

\* path.append(step)
Push(st, step) == [st EXCEPT !.path = Append(@, step)]

\* path.pop() left out
Pop_skipped(st) == st

\* path.pop(): IndexError when the list is empty
Pop(st) ==
    IF st.path # <<>>
    THEN [st EXCEPT !.path = SubSeq(@, 1, Len(@) - 1)]
    ELSE [st EXCEPT !.raised = "IndexError"]

\* all_paths.append(path.copy())
Record(st) == [st EXCEPT !.all_paths = Append(@, st.path)]

\* st = [path, visited, all_paths, raised]: the three objects the calls of
\* dfs share, and the exception that is unwinding the search, if any
RECURSIVE dfs(_, _, _, _, _, _)
RECURSIVE ScanOutgoing(_, _, _, _, _, _, _)
RECURSIVE ScanIncoming(_, _, _, _, _, _, _)

\* dfs without visited.add and visited.remove
dfs_unmarked(rels, current_id, target_id, st, depth, max_depth) ==
    IF DepthExceeded(depth, max_depth) THEN st
    ELSE IF current_id = target_id THEN Record(st)
    ELSE ScanIncoming(rels, 1, current_id, target_id,
                      ScanOutgoing(rels, 1, current_id, target_id, st,
                                   depth, max_depth),
                      depth, max_depth)

\* dfs with the loop over the incoming relationships run first
dfs_incoming_first(rels, current_id, target_id, st, depth, max_depth) ==
    IF DepthExceeded(depth, max_depth) THEN st
    ELSE IF current_id = target_id THEN Record(st)
    ELSE LET marked == Mark(st, current_id)
             afterIn == ScanIncoming(rels, 1, current_id, target_id, marked,
                                     depth, max_depth)
             afterOut == ScanOutgoing(rels, 1, current_id, target_id, afterIn,
                                      depth, max_depth)
         IN IF afterOut.raised # NoException THEN afterOut
            ELSE Unmark(afterOut, current_id)

dfs(rels, current_id, target_id, st, depth, max_depth) ==
    IF DepthExceeded(depth, max_depth) THEN st
    ELSE IF current_id = target_id THEN Record(st)
    ELSE LET marked == Mark(st, current_id)
             afterOut == ScanOutgoing(rels, 1, current_id, target_id, marked,
                                      depth, max_depth)
             afterIn == ScanIncoming(rels, 1, current_id, target_id, afterOut,
                                     depth, max_depth)
         IN IF afterIn.raised # NoException THEN afterIn
            ELSE Unmark(afterIn, current_id)

\* for rel in self.relationships, from the i-th on: the outgoing ones
ScanOutgoing(rels, i, current_id, target_id, st, depth, max_depth) ==
    IF i > Len(rels) \/ st.raised # NoException THEN st
    ELSE IF OutgoingRaises(rels[i], current_id)
    THEN [st EXCEPT !.raised = "KeyError"]
    ELSE IF OutgoingCandidate(rels[i], current_id, st.visited)
    THEN LET pushed == Push(st, OutgoingStep(current_id, rels[i]))
             back == dfs(rels, rels[i].target, target_id, pushed,
                         depth + 1, max_depth)
             popped == IF back.raised # NoException THEN back ELSE Pop(back)
         IN ScanOutgoing(rels, i + 1, current_id, target_id, popped,
                         depth, max_depth)
    ELSE ScanOutgoing(rels, i + 1, current_id, target_id, st, depth, max_depth)

\* for rel in self.relationships, from the i-th on: the incoming ones
ScanIncoming(rels, i, current_id, target_id, st, depth, max_depth) ==
    IF i > Len(rels) \/ st.raised # NoException THEN st
    ELSE IF IncomingRaises(rels[i], current_id)
    THEN [st EXCEPT !.raised = "KeyError"]
    ELSE IF IncomingCandidate(rels[i], current_id, st.visited)
    THEN LET pushed == Push(st, IncomingStep(current_id, rels[i]))
             back == dfs(rels, rels[i].source, target_id, pushed,
                         depth + 1, max_depth)
             popped == IF back.raised # NoException THEN back ELSE Pop(back)
         IN ScanIncoming(rels, i + 1, current_id, target_id, popped,
                         depth, max_depth)
    ELSE ScanIncoming(rels, i + 1, current_id, target_id, st, depth, max_depth)

\* all_paths = []; dfs(start_node_id, end_node_id, [], set(), all_paths, 0);
\* return all_paths: nothing is returned when the search raised
Search(self, start_node_id, end_node_id, max_depth) ==
    LET done == dfs(self.relationships, start_node_id, end_node_id,
                    [path |-> <<>>, visited |-> {}, all_paths |-> <<>>,
                     raised |-> NoException],
                    0, max_depth)
    IN IF done.raised = NoException
       THEN Outcome(self, NoException, done.all_paths)
       ELSE Outcome(self, done.raised, "")

\* find_paths without its special case for start = end
find_paths_search_only(self, start_node_id, end_node_id, max_depth) ==
    Search(self, start_node_id, end_node_id, max_depth)

find_paths(self, start_node_id, end_node_id, max_depth) ==
    IF start_node_id = end_node_id
    THEN Outcome(self, NoException,
                 << << <<start_node_id, "SELF", start_node_id>> >> >>)
    ELSE Search(self, start_node_id, end_node_id, max_depth)

\* no find_paths call is in progress
NoSearch ==
    [status |-> "idle", frames |-> <<>>, path |-> <<>>, visited |-> {},
     all_paths |-> <<>>, raised |-> NoException, start_node_id |-> "",
     target_id |-> "", max_depth |-> 0]

---------------------------------------------------------------------------
(* Inputs of the store life-cycle *)

SeqUpTo(S, n) == UNION {[1..k -> S] : k \in 0..n}

NodeRecords ==
    {[id |-> i, labels |-> l, properties |-> NodeProps] :
        i \in NodeIds, l \in LabelLists}

RelRecords ==
    {[source |-> s, target |-> t, type |-> ty, properties |-> RelProps] :
        s \in NodeIds, t \in NodeIds, ty \in RelTypes}

\* the node objects of the documents: a node record, or one without "id"
NodeObjects ==
    NodeRecords \cup {[labels |-> DocLabels, properties |-> NodeProps]}

NodeObjectLists ==
    {<<>>} \cup {<<n>> : n \in NodeObjects}
           \cup {<<n, m>> : n \in NodeObjects, m \in NodeObjects}

\* the relationship objects of the hand-written texts: the relationship
\* records, and an object without "source" (from_json stores the list of
\* relationship objects as it is)
RelObjects ==
    RelRecords
        \cup {[target |-> t, type |-> ty, properties |-> RelProps] :
                  t \in NodeIds, ty \in RelTypes}

RelObjectLists == {<<>>} \cup {<<r>> : r \in RelObjects}

\* hand-written texts: malformed, not an object, a collection missing,
\* a node without id, a node id listed twice, relationships between ids
\* the document does not list, a relationship without source
Documents ==
    {MalformedText, json_dumps(PyList(<<>>))}
        \cup {json_dumps(PyDict([relationships |-> rs])) : rs \in RelObjectLists}
        \cup {json_dumps(PyDict([nodes |-> ns])) : ns \in NodeObjectLists}
        \cup {json_dumps(PyDict([nodes |-> ns, relationships |-> <<>>])) :
                 ns \in NodeObjectLists}
        \cup {json_dumps(PyDict([nodes |-> ns, relationships |-> rs])) :
                 ns \in {l \in NodeObjectLists : Len(l) <= 1},
                 rs \in RelObjectLists}

\* the node dicts of the serialized stores: one record per id, stored
\* under its id, in any insertion order
NodeDicts ==
    {[i \in 1..Len(s) |-> <<s[i].id, s[i]>>] :
        s \in {t \in SeqUpTo({n \in NodeRecords : n.labels = DocLabels},
                              Cardinality(NodeIds)) :
                  \A i, j \in 1..Len(t) : t[i].id = t[j].id => i = j}}

\* rel_type of get_relationships: None (the default), or a type
TypeFilters(types) == {NoType} \cup {<<ty>> : ty \in types}

\* the stores that are serialized: their relationships are between their
\* nodes, as add_relationship leaves them
StoreSet ==
    {G \in {[nodes |-> d, relationships |-> r] :
                d \in NodeDicts, r \in SeqUpTo(RelRecords, MaxRels)} :
        \A i \in 1..Len(G.relationships) :
            /\ DictHas(G.nodes, G.relationships[i].source)
            /\ DictHas(G.nodes, G.relationships[i].target)}

\* the texts passed to from_json: the hand-written ones and the
\* serializations of stores
Texts == Documents \cup {to_json(G) : G \in StoreSet}

---------------------------------------------------------------------------
(* The store life-cycle *)

Init ==
    /\ nodes = <<>>
    /\ relationships = <<>>
    /\ call = [op |-> "__init__", args |-> <<>>, raised |-> NoException,
               result |-> ""]
    /\ search = NoSearch

\* the call op(args) ends as r: the store it leaves, what it raised or returned
Ends(op, args, r) ==
    /\ nodes' = r.nodes
    /\ relationships' = r.relationships
    /\ call' = [op |-> op, args |-> args, raised |-> r.raised,
                result |-> r.result]
    /\ search' = search

AddNode ==
    \E node_id \in NodeIds, labels \in LabelLists :
        Ends("add_node", <<node_id, labels, NodeProps>>,
             add_node(Self, node_id, labels, NodeProps))

AddRelationship ==
    \E source_id \in NodeIds, target_id \in NodeIds, rel_type \in RelTypes :
        LET r == add_relationship(Self, source_id, target_id, rel_type, RelProps)
        IN /\ Len(r.relationships) <= MaxRels
           /\ Ends("add_relationship",
                   <<source_id, target_id, rel_type, RelProps>>, r)

ToJson ==
    Ends("to_json", <<>>, Outcome(Self, NoException, to_json(Self)))

FromJson ==
    \E json_str \in Texts :
        Ends("from_json", <<json_str>>, from_json(Self, json_str))

GetNode ==
    \E node_id \in NodeIds :
        Ends("get_node", <<node_id>>, get_node(Self, node_id))

GetRelationships ==
    \E node_id \in NodeIds, rel_type \in TypeFilters(RelTypes) :
        Ends("get_relationships", <<node_id, rel_type>>,
             get_relationships(Self, node_id, rel_type))

Query ==
    \E start_node_id \in NodeIds,
       relationship_path \in SeqUpTo(RelTypes, MaxQueryPath) :
        Ends("query", <<start_node_id, relationship_path>>,
             query(Self, start_node_id, relationship_path))

\* find_paths(start_node_id, end_node_id): max_depth is left to its default
FindPathsDefault ==
    \E start_node_id \in NodeIds, end_node_id \in NodeIds :
        Ends("find_paths", <<start_node_id, end_node_id, DefaultMaxDepth>>,
             find_paths(Self, start_node_id, end_node_id, DefaultMaxDepth))

Next ==
    \/ AddNode
    \/ AddRelationship
    \/ ToJson
    \/ FromJson
    \/ GetNode
    \/ GetRelationships
    \/ Query
    \/ FindPathsDefault

Spec == Init /\ [][Next]_vars

---------------------------------------------------------------------------
(* find_paths applied to the graphs of at most MaxPathRels relationships *)

PathNodeRecord(i) == [id |-> i, labels |-> DocLabels, properties |-> NodeProps]

\* every id of PathIds is a node, or "c" is not: then a relationship naming
\* "c" is one loaded by from_json from a text that does not list "c"
PathNodeDicts ==
    {<< <<"a", PathNodeRecord("a")>>, <<"b", PathNodeRecord("b")>>,
        <<"c", PathNodeRecord("c")>> >>,
     << <<"a", PathNodeRecord("a")>>, <<"b", PathNodeRecord("b")>> >>}

PathRelRecords ==
    {[source |-> s, target |-> t, type |-> ty, properties |-> RelProps] :
        s \in PathIds, t \in PathIds, ty \in RelTypes}

\* max_depth: a negative depth, 0, and up to the bound
DepthArgs == (-1)..MaxDepthArg

InitPaths ==
    /\ nodes \in PathNodeDicts
    /\ relationships \in SeqUpTo(PathRelRecords, MaxPathRels)
    /\ call = [op |-> "__init__", args |-> <<>>, raised |-> NoException,
               result |-> ""]
    /\ search = NoSearch

\* one call on each graph: find_paths assigns nothing to self, a second call
\* would start from the same store
FindPaths ==
    /\ call.op = "__init__"
    /\ \E start_node_id \in PathIds, end_node_id \in PathIds,
          max_depth \in DepthArgs :
           Ends("find_paths", <<start_node_id, end_node_id, max_depth>>,
                find_paths(Self, start_node_id, end_node_id, max_depth))

NextPaths == FindPaths

SpecPaths == InitPaths /\ [][NextPaths]_vars

---------------------------------------------------------------------------
(* query and get_relationships applied to the graphs of at most            *)
(* MaxQueryRels relationships of two types                                 *)

QueryRelRecords ==
    {[source |-> s, target |-> t, type |-> ty, properties |-> RelProps] :
        s \in PathIds, t \in PathIds, ty \in QueryTypes}

InitQuery ==
    /\ nodes \in PathNodeDicts
    /\ relationships \in SeqUpTo(QueryRelRecords, MaxQueryRels)
    /\ call = [op |-> "__init__", args |-> <<>>, raised |-> NoException,
               result |-> ""]
    /\ search = NoSearch

\* one call on each graph: the reads assign nothing to self
QueryGraph ==
    /\ call.op = "__init__"
    /\ \E start_node_id \in PathIds,
          relationship_path \in SeqUpTo(QueryTypes, MaxQueryPath) :
           Ends("query", <<start_node_id, relationship_path>>,
                query(Self, start_node_id, relationship_path))

GetRelationshipsGraph ==
    /\ call.op = "__init__"
    /\ \E node_id \in PathIds, rel_type \in TypeFilters(QueryTypes) :
           Ends("get_relationships", <<node_id, rel_type>>,
                get_relationships(Self, node_id, rel_type))

NextQuery == QueryGraph \/ GetRelationshipsGraph

SpecQuery == InitQuery /\ [][NextQuery]_vars

---------------------------------------------------------------------------
(* find_paths run call by call on the graphs of at most MaxSearchRels      *)
(* relationships: search.frames is the stack of the calls of dfs, each     *)
(* with its current_id, its depth, the place it has reached (pc) and the   *)
(* position i of its loop over self.relationships                          *)

InitSearch ==
    /\ nodes \in PathNodeDicts
    /\ relationships \in SeqUpTo(PathRelRecords, MaxSearchRels)
    /\ call = [op |-> "__init__", args |-> <<>>, raised |-> NoException,
               result |-> ""]
    /\ search = NoSearch

Frame(current_id, depth) ==
    [current_id |-> current_id, depth |-> depth, pc |-> "enter", i |-> 1]

Top == search.frames[Len(search.frames)]

\* the calling frames, and the frame on top replaced by f
WithTop(st, f) == [st EXCEPT !.frames[Len(st.frames)] = f]

\* the first position from i on whose relationship the loop takes (the
\* relationships before it fail the test of the loop), 0 when there is none
NextOutgoing(i, current_id, visited) ==
    LET taken == {j \in i..Len(relationships) :
                     OutgoingCandidate(relationships[j], current_id, visited)}
    IN IF taken = {} THEN 0 ELSE CHOOSE j \in taken : \A k \in taken : j <= k

NextIncoming(i, current_id, visited) ==
    LET taken == {j \in i..Len(relationships) :
                     IncomingCandidate(relationships[j], current_id, visited)}
    IN IF taken = {} THEN 0 ELSE CHOOSE j \in taken : \A k \in taken : j <= k

\* find_paths(start, end, max_depth): the special case returns at once,
\* otherwise dfs(start_node_id, end_node_id, [], set(), all_paths, 0) is
\* called
CallFindPaths ==
    /\ search.status = "idle"
    /\ \E start_node_id \in PathIds, end_node_id \in PathIds,
          max_depth \in DepthArgs :
           LET called == [NoSearch EXCEPT !.start_node_id = start_node_id,
                                          !.target_id = end_node_id,
                                          !.max_depth = max_depth]
           IN search' =
                 IF start_node_id = end_node_id
                 THEN [called EXCEPT
                          !.status = "done",
                          !.all_paths = << << <<start_node_id, "SELF",
                                                start_node_id>> >> >>]
                 ELSE [called EXCEPT
                          !.status = "running",
                          !.frames = <<Frame(start_node_id, 0)>>]
    /\ UNCHANGED <<nodes, relationships, call>>

\* a call of dfs begins: the depth test, the target test, visited.add
DfsEnter ==
    /\ search.status = "running"
    /\ Top.pc = "enter"
    /\ search' =
          IF DepthExceeded(Top.depth, search.max_depth)
          THEN WithTop(search, [Top EXCEPT !.pc = "return"])
          ELSE IF Top.current_id = search.target_id
          THEN WithTop(Record(search), [Top EXCEPT !.pc = "return"])
          ELSE WithTop(Mark(search, Top.current_id),
                       [Top EXCEPT !.pc = "outgoing", !.i = 1])
    /\ UNCHANGED <<nodes, relationships, call>>

\* the loop over the outgoing relationships goes on to the next relationship
\* it takes: path.append, and the recursive call; or it is over
DfsOutgoing ==
    /\ search.status = "running"
    /\ Top.pc = "outgoing"
    /\ LET j == NextOutgoing(Top.i, Top.current_id, search.visited) IN
       search' =
          IF j = 0
          THEN WithTop(search, [Top EXCEPT !.pc = "incoming", !.i = 1])
          ELSE LET pushed == Push(search,
                                  OutgoingStep(Top.current_id, relationships[j]))
               IN [pushed EXCEPT
                      !.frames = Append(WithTop(search, [Top EXCEPT !.i = j]).frames,
                                        Frame(relationships[j].target,
                                              Top.depth + 1))]
    /\ UNCHANGED <<nodes, relationships, call>>

\* the loop over the incoming relationships goes on to the next relationship
\* it takes; or it is over: visited.remove(current_id), whose exception, if
\* any, leaves every call of dfs and find_paths
DfsIncoming ==
    /\ search.status = "running"
    /\ Top.pc = "incoming"
    /\ LET j == NextIncoming(Top.i, Top.current_id, search.visited) IN
       search' =
          IF j = 0
          THEN LET unmarked == Unmark(search, Top.current_id) IN
               IF unmarked.raised # NoException
               THEN [unmarked EXCEPT !.status = "done", !.frames = <<>>]
               ELSE WithTop(unmarked, [Top EXCEPT !.pc = "return"])
          ELSE LET pushed == Push(search,
                                  IncomingStep(Top.current_id, relationships[j]))
               IN [pushed EXCEPT
                      !.frames = Append(WithTop(search, [Top EXCEPT !.i = j]).frames,
                                        Frame(relationships[j].source,
                                              Top.depth + 1))]
    /\ UNCHANGED <<nodes, relationships, call>>

\* a call of dfs returns to the loop that made it: path.pop(), and the loop
\* goes on after the relationship it had taken
DfsReturn ==
    /\ search.status = "running"
    /\ Top.pc = "return"
    /\ Len(search.frames) > 1
    /\ LET caller == search.frames[Len(search.frames) - 1]
           back == [search EXCEPT
                       !.frames = SubSeq(@, 1, Len(@) - 1)]
           popped == Pop(back)
       IN search' =
             IF popped.raised # NoException
             THEN [popped EXCEPT !.status = "done", !.frames = <<>>]
             ELSE WithTop(popped, [caller EXCEPT !.i = @ + 1])
    /\ UNCHANGED <<nodes, relationships, call>>

\* the first call of dfs returns: return all_paths
SearchReturns ==
    /\ search.status = "running"
    /\ Top.pc = "return"
    /\ Len(search.frames) = 1
    /\ search' = [search EXCEPT !.status = "done", !.frames = <<>>]
    /\ UNCHANGED <<nodes, relationships, call>>

NextSearch ==
    \/ CallFindPaths
    \/ DfsEnter
    \/ DfsOutgoing
    \/ DfsIncoming
    \/ DfsReturn
    \/ SearchReturns

SpecSearch == InitSearch /\ [][NextSearch]_vars

\* the calls run to completion: no step of the one thread is put off
\* forever (every step of NextSearch changes search)
SpecSearchLive == SpecSearch /\ WF_search(NextSearch)

---------------------------------------------------------------------------
(* create_sample_insurance_graph, and the reads applied to its graph.      *)
(* A number among the property values is written as the string of its      *)
(* Python repr: no operation of the store looks into the properties.       *)

\* the add_node calls of create_sample_insurance_graph, in their order
SampleNodes ==
    << <<"policy1", <<"Policy">>,
         << <<"policy_number", "POL-HDI-45678">>, <<"type", "Homeowners">>,
            <<"start_date", "2023-01-01">>, <<"end_date", "2024-01-01">>,
            <<"premium", "1200.0">>, <<"deductible", "1000.0">> >> >>,
       <<"person1", <<"Policyholder">>,
         << <<"name", "John Smith">>, <<"type", "Homeowners">>,
            <<"address", "123 Main Street, Hartford, CT 06103">>,
            <<"phone", "(555) 123-4567">>,
            <<"email", "john.smith@email.com">> >> >>,
       <<"claim1", <<"Claim">>,
         << <<"claim_number", "CLM-2023-78945">>,
            <<"date_of_loss", "2023-05-15">>,
            <<"incident_type", "Water Damage">>, <<"status", "Open">>,
            <<"reported_date", "2023-05-15">> >> >>,
       <<"property1", <<"Property">>,
         << <<"address", "123 Main Street, Hartford, CT 06103">>,
            <<"type", "Single Family Home">>, <<"year_built", "1985">>,
            <<"square_feet", "2200">> >> >>,
       <<"provider1", <<"ServiceProvider">>,
         << <<"name", "ABC Plumbing">>, <<"service_type", "Plumbing">>,
            <<"phone", "(555) 987-6543">> >> >>,
       <<"provider2", <<"ServiceProvider">>,
         << <<"name", "XYZ Water Restoration">>,
            <<"service_type", "Water Mitigation">>,
            <<"phone", "(555) 456-7890">> >> >> >>

\* the add_relationship calls with the FILED relationship added first
SampleRelationships_filed_first ==
    << <<"person1", "claim1", "FILED", << <<"date", "2023-05-15">> >> >>,
       <<"person1", "policy1", "HOLDS", << <<"role", "Primary Insured">> >> >>,
       <<"person1", "property1", "OWNS", << <<"since", "2011">> >> >>,
       <<"claim1", "policy1", "COVERED_BY",
         << <<"coverage_type", "Dwelling">> >> >>,
       <<"claim1", "property1", "AFFECTS",
         << <<"damage_extent", "Moderate">> >> >>,
       <<"claim1", "provider1", "SERVICED_BY",
         << <<"service_date", "2023-03-15">>,
            <<"service_type", "Pipe Repair">> >> >>,
       <<"claim1", "provider2", "SERVICED_BY",
         << <<"service_date", "2023-05-15">>,
            <<"service_type", "Water Extraction">> >> >> >>

\* the add_relationship calls of create_sample_insurance_graph, in their
\* order
SampleRelationships ==
    << <<"person1", "policy1", "HOLDS", << <<"role", "Primary Insured">> >> >>,
       <<"person1", "property1", "OWNS", << <<"since", "2011">> >> >>,
       <<"person1", "claim1", "FILED", << <<"date", "2023-05-15">> >> >>,
       <<"claim1", "policy1", "COVERED_BY",
         << <<"coverage_type", "Dwelling">> >> >>,
       <<"claim1", "property1", "AFFECTS",
         << <<"damage_extent", "Moderate">> >> >>,
       <<"claim1", "provider1", "SERVICED_BY",
         << <<"service_date", "2023-03-15">>,
            <<"service_type", "Pipe Repair">> >> >>,
       <<"claim1", "provider2", "SERVICED_BY",
         << <<"service_date", "2023-05-15">>,
            <<"service_type", "Water Extraction">> >> >> >>

\* the store a call leaves
StoreOf(r) == [nodes |-> r.nodes, relationships |-> r.relationships]

\* graph.add_node(...) for the calls from the i-th on
RECURSIVE AddSampleNodes(_, _)
AddSampleNodes(graph, i) ==
    IF i > Len(SampleNodes) THEN graph
    ELSE LET a == SampleNodes[i] IN
         AddSampleNodes(StoreOf(add_node(graph, a[1], a[2], a[3])), i + 1)

\* graph.add_relationship(...) for the calls from the i-th on
RECURSIVE AddSampleRelationships(_, _)
AddSampleRelationships(graph, i) ==
    IF i > Len(SampleRelationships) THEN graph
    ELSE LET a == SampleRelationships[i] IN
         AddSampleRelationships(
             StoreOf(add_relationship(graph, a[1], a[2], a[3], a[4])), i + 1)

create_sample_insurance_graph ==
    AddSampleRelationships(AddSampleNodes(EmptyStore, 1), 1)

SampleIds == {SampleNodes[i][1] : i \in 1..Len(SampleNodes)}
SampleTypes == {SampleRelationships[i][3] : i \in 1..Len(SampleRelationships)}

InitSample ==
    /\ nodes = create_sample_insurance_graph.nodes
    /\ relationships = create_sample_insurance_graph.relationships
    /\ call = [op |-> "__init__", args |-> <<>>, raised |-> NoException,
               result |-> ""]
    /\ search = NoSearch

\* find_paths with max_depth given, up to its default
FindPathsSample ==
    \E start_node_id \in SampleIds, end_node_id \in SampleIds,
       max_depth \in 0..DefaultMaxDepth :
        Ends("find_paths", <<start_node_id, end_node_id, max_depth>>,
             find_paths(Self, start_node_id, end_node_id, max_depth))

QuerySample ==
    \E start_node_id \in SampleIds,
       relationship_path \in SeqUpTo(SampleTypes, 1) :
        Ends("query", <<start_node_id, relationship_path>>,
             query(Self, start_node_id, relationship_path))

NextSample == FindPathsSample \/ QuerySample

SpecSample == InitSample /\ [][NextSample]_vars

---------------------------------------------------------------------------
(* Claims about the store life-cycle, checked under Spec *)

KnownIds == DictKeys(nodes)

\* C1: add_relationship with a source or a target that is not a node id of
\* the store raises, and leaves the node dict and the relationship list
\* exactly as they were before the call.
C1_UnknownNodeRaisesAndKeepsStore ==
    [][(/\ call'.op = "add_relationship"
        /\ \/ ~DictHas(nodes, call'.args[1])
           \/ ~DictHas(nodes, call'.args[2]))
       => /\ call'.raised # NoException
          /\ nodes' = nodes
          /\ relationships' = relationships]_vars

\* a call with a known source and an unknown target was refused on a store
\* that holds relationships
C1_Witness ==
    /\ call.op = "add_relationship"
    /\ call.raised = "ValueError"
    /\ call.args[1] \in KnownIds
    /\ call.args[2] \notin KnownIds
    /\ Len(relationships) >= 1

\* C2: in every state reached by add_node, add_relationship and from_json
\* calls, the source and the target of every stored relationship are ids
\* of nodes of the store.
C2_NoDanglingReferences ==
    \A i \in 1..Len(relationships) :
        /\ {"source", "target"} \subseteq DOMAIN relationships[i]
        /\ relationships[i].source \in KnownIds
        /\ relationships[i].target \in KnownIds

\* C6: from_json(to_json(G)) on a store holding anything leaves it with G's
\* node dict and G's relationship list, and serializing it again gives the
\* same text.
C6_RoundTripReplaces ==
    \A G \in StoreSet :
        (call.op = "from_json" /\ call.args[1] = to_json(G))
        => /\ call.raised = NoException
           /\ nodes = G.nodes
           /\ relationships = G.relationships
           /\ to_json(Self) = to_json(G)

\* the serialization of a store with two nodes and two relationships, one
\* of them a self-loop, was loaded
C6_Witness ==
    /\ call.op = "from_json"
    /\ \E G \in StoreSet :
          /\ call.args[1] = to_json(G)
          /\ Len(G.nodes) = 2
          /\ Len(G.relationships) = 2
          /\ G.relationships[1].source = G.relationships[1].target
          /\ G.relationships[2].source # G.relationships[2].target
    /\ Len(nodes) = 2
    /\ Len(relationships) = 2

\* C7: a from_json call that raises leaves the node dict and the
\* relationship list exactly as they were before the call.
C7_FailedFromJsonKeepsStore ==
    [][(call'.op = "from_json" /\ call'.raised # NoException)
       => (nodes' = nodes /\ relationships' = relationships)]_vars

\* the class json.loads raises for a text that is not well-formed
FormatErrorKind == from_json(EmptyStore, MalformedText).raised

LacksCollection(text) ==
    /\ text.wf
    /\ \/ text.value.type # "dict"
       \/ "nodes" \notin DOMAIN text.value.items
       \/ "relationships" \notin DOMAIN text.value.items

\* C8: from_json raises for every text that is not well-formed or lacks one
\* of the two collections, every exception from_json raises is of the one
\* class raised for a malformed text, that class is not the class
\* add_relationship raises, and the store raises nothing else.
C8_OneFormatErrorKind ==
    /\ (call.op = "from_json"
          /\ (~call.args[1].wf \/ LacksCollection(call.args[1])))
        => call.raised # NoException
    /\ (call.op = "from_json" /\ call.raised # NoException)
        => call.raised = FormatErrorKind
    /\ (call.op = "add_relationship" /\ call.raised # NoException)
        => call.raised # FormatErrorKind
    /\ call.op \notin {"from_json", "add_relationship"}
        => call.raised = NoException

---------------------------------------------------------------------------
(* Claims about find_paths, checked under SpecPaths *)

Range(seq) == {seq[i] : i \in 1..Len(seq)}

IsFindPaths == call.op = "find_paths"
\* the call returned a list of paths
Returned == IsFindPaths /\ call.raised = NoException
StartArg == call.args[1]
EndArg == call.args[2]
DepthArg == call.args[3]

\* the nodes a path visits: start, to_1, ..., to_n
PathNodes(p) == <<p[1][1]>> \o [i \in 1..Len(p) |-> p[i][3]]

Distinct(seq) == \A i, j \in 1..Len(seq) : seq[i] = seq[j] => i = j

\* C3 as stated: for every start, end and max_depth, the node sequence of
\* every returned path has pairwise distinct nodes.
C3_SimplePathsAnyStartEnd ==
    Returned =>
        \A p \in Range(call.result) : p # <<>> /\ Distinct(PathNodes(p))

\* C3 amended: for start # end, the node sequence of every returned path has
\* pairwise distinct nodes, so end occurs only as the last node; for
\* start = end the one returned path is the SELF step from start to start.
C3_SimplePaths ==
    Returned =>
        IF StartArg # EndArg
        THEN \A p \in Range(call.result) :
                /\ p # <<>>
                /\ Distinct(PathNodes(p))
                /\ \A i \in 1..Len(p) : p[i][3] = EndArg <=> i = Len(p)
        ELSE \A p \in Range(call.result) :
                PathNodes(p) = <<StartArg, StartArg>>

\* a search that starts at a node with a self-loop, in a graph with a
\* relationship back to the start, returned a path of two steps
C3_Witness ==
    /\ Returned
    /\ StartArg # EndArg
    /\ \E i, j \in 1..Len(relationships) :
          /\ relationships[i].source = StartArg
          /\ relationships[i].target = StartArg
          /\ relationships[j].source # StartArg
          /\ relationships[j].target = StartArg
    /\ \E p \in Range(call.result) : Len(p) = 2

\* C4: for start # end every returned path has at most max_depth steps and
\* ends at end (a longer path is neither recorded nor cut short), and
\* max_depth = 0 returns no path.
C4_DepthBound ==
    (Returned /\ StartArg # EndArg) =>
        /\ \A p \in Range(call.result) :
              /\ Len(p) >= 1
              /\ Len(p) <= DepthArg
              /\ p[Len(p)][3] = EndArg
        /\ DepthArg = 0 => call.result = <<>>

\* max_depth = 0 returned nothing although a relationship connects start
\* and end, and one more level of depth finds that path
C4_Witness ==
    /\ Returned
    /\ StartArg # EndArg
    /\ DepthArg = 0
    /\ call.result = <<>>
    /\ \E i \in 1..Len(relationships) :
          /\ relationships[i].source = StartArg
          /\ relationships[i].target = EndArg
    /\ find_paths(Self, StartArg, EndArg, 1).result # <<>>

\* A traversal is a relationship position with a direction; a walk is a
\* sequence of traversals.
Traversals == (1..Len(relationships)) \X {"out", "in"}

TravFrom(t) ==
    IF t[2] = "out" THEN relationships[t[1]].source
    ELSE relationships[t[1]].target

TravTo(t) ==
    IF t[2] = "out" THEN relationships[t[1]].target
    ELSE relationships[t[1]].source

TravLabel(t) ==
    IF t[2] = "out" THEN relationships[t[1]].type
    ELSE "INVERSE_" \o relationships[t[1]].type

WalkEnd(start, w) == IF w = <<>> THEN start ELSE TravTo(w[Len(w)])

WalkNodes(start, w) == {start} \cup {TravTo(w[i]) : i \in 1..Len(w)}

\* the walks of n traversals from start that visit pairwise distinct nodes
\* and do not go on after reaching end
RECURSIVE SimpleWalks(_, _, _)
SimpleWalks(start, end, n) ==
    IF n = 0 THEN {<<>>}
    ELSE {Append(w, t) :
            <<w, t>> \in {x \in SimpleWalks(start, end, n - 1) \X Traversals :
                /\ WalkEnd(start, x[1]) # end
                /\ TravFrom(x[2]) = WalkEnd(start, x[1])
                /\ TravTo(x[2]) \notin WalkNodes(start, x[1])}}

\* the simple walks from start to end of 1..max_depth traversals
SimpleWalksTo(start, end, max_depth) ==
    {w \in UNION {SimpleWalks(start, end, n) : n \in 1..max_depth} :
        WalkEnd(start, w) = end}

WalkPath(w) ==
    [i \in 1..Len(w) |-> <<TravFrom(w[i]), TravLabel(w[i]), TravTo(w[i])>>]

Occurrences(seq, x) == Cardinality({i \in 1..Len(seq) : seq[i] = x})

\* C5: for start # end the returned list holds one path for each simple
\* walk from start to end of at most max_depth traversals, and nothing
\* else: as many paths as walks, and each path as often as walks give it.
C5_ExactlyTheSimplePaths ==
    (IsFindPaths /\ StartArg # EndArg) =>
        LET walks == SimpleWalksTo(StartArg, EndArg, DepthArg) IN
        /\ call.raised = NoException
        /\ Len(call.result) = Cardinality(walks)
        /\ \A p \in Range(call.result) \cup {WalkPath(w) : w \in walks} :
              Occurrences(call.result, p)
                  = Cardinality({w \in walks : WalkPath(w) = p})

\* two parallel relationships lead from start to a middle node: the search
\* left the middle node by backtracking, entered it again by the other
\* relationship, and returned the path of two steps twice
C5_Witness ==
    /\ Returned
    /\ StartArg # EndArg
    /\ Len(call.result) >= 2
    /\ \E i, j \in 1..Len(call.result) :
          /\ i # j
          /\ Len(call.result[i]) = 2
          /\ call.result[i] = call.result[j]

\* C9: find_paths(n, n, k) returns exactly one path, the single step
\* (n, "SELF", n), whatever relationships the store holds.
C9_SelfPath ==
    (IsFindPaths /\ StartArg = EndArg) =>
        /\ call.raised = NoException
        /\ call.result = << << <<StartArg, "SELF", StartArg>> >> >>

\* find_paths(n, n, k) was called for a node n with a self-loop that also
\* lies on a cycle through another node
C9_Witness ==
    /\ Returned
    /\ StartArg = EndArg
    /\ StartArg \in KnownIds
    /\ Len(call.result) = 1
    /\ \E i, j, k \in 1..Len(relationships) :
          /\ relationships[i].source = StartArg
          /\ relationships[i].target = StartArg
          /\ relationships[j].source = StartArg
          /\ relationships[j].target # StartArg
          /\ relationships[k].source = relationships[j].target
          /\ relationships[k].target = StartArg

\* C10: find_paths returns the empty list, and raises nothing, whenever
\* start or end is not a node id of the store.
C10_UnknownIdNoPaths ==
    (IsFindPaths /\ (StartArg \notin KnownIds \/ EndArg \notin KnownIds)) =>
        /\ call.raised = NoException
        /\ call.result = <<>>

\* C11: in a store whose only relationship is A -type-> B, find_paths(A, B, 1)
\* returns the one path [(A, type, B)] and find_paths(B, A, 1) returns the
\* one path [(B, "INVERSE_" + type, A)].
C11_IncomingTraversable ==
    (/\ IsFindPaths
     /\ Len(relationships) = 1
     /\ relationships[1].source # relationships[1].target
     /\ DepthArg = 1)
    => LET rel == relationships[1] IN
       /\ (StartArg = rel.source /\ EndArg = rel.target)
            => /\ call.raised = NoException
               /\ call.result =
                      << << <<rel.source, rel.type, rel.target>> >> >>
       /\ (StartArg = rel.target /\ EndArg = rel.source)
            => /\ call.raised = NoException
               /\ call.result =
                      << << <<rel.target, "INVERSE_" \o rel.type,
                              rel.source>> >> >>

\* find_paths(B, A, 1) was called on the store whose only relationship is
\* A -> B, between two nodes of the store
C11_Witness ==
    /\ Returned
    /\ Len(relationships) = 1
    /\ DepthArg = 1
    /\ StartArg # EndArg
    /\ {StartArg, EndArg} \subseteq KnownIds
    /\ StartArg = relationships[1].target
    /\ EndArg = relationships[1].source
    /\ Len(call.result) = 1

\* outgoing before incoming, then by position in self.relationships
TravBefore(t, u) ==
    \/ t[2] = "out" /\ u[2] = "in"
    \/ t[2] = u[2] /\ t[1] < u[1]

\* the walk v branches off before the walk w: at the first step where they
\* differ, v takes the traversal the search tries first
WalkBefore(v, w) ==
    \E k \in 1..Len(v) :
        /\ k <= Len(w)
        /\ \A j \in 1..(k - 1) : v[j] = w[j]
        /\ TravBefore(v[k], w[k])

\* C12: the returned list is in depth-first order: at every branch node the
\* paths that go on by an outgoing relationship precede those that go on by
\* an incoming one, and within a direction they follow the position of
\* that relationship in the relationship list; the i-th returned path is
\* the path of the i-th simple walk in that order.
C12_DepthFirstOrder ==
    (IsFindPaths /\ StartArg # EndArg) =>
        LET walks == SimpleWalksTo(StartArg, EndArg, DepthArg) IN
        /\ call.raised = NoException
        /\ Len(call.result) = Cardinality(walks)
        /\ \A w \in walks :
              call.result[Cardinality({v \in walks : WalkBefore(v, w)}) + 1]
                  = WalkPath(w)

\* a path of two steps was returned before a path of one step, and the one
\* step is an incoming relationship listed before the outgoing one the
\* longer path starts with
C12_Witness ==
    /\ Returned
    /\ StartArg # EndArg
    /\ Len(call.result) = 2
    /\ Len(call.result[1]) = 2
    /\ Len(call.result[2]) = 1
    /\ Len(relationships) = 3
    /\ relationships[1].target = StartArg
    /\ relationships[1].source = EndArg

---------------------------------------------------------------------------
(* Claims about query and get_relationships *)

IsQuery == call.op = "query"

\* the ids reached from start by the first n types of path, each step along
\* a stored relationship of that type from its source to its target
RECURSIVE Chained(_, _, _)
Chained(start, path, n) ==
    IF n = 0 THEN {start}
    ELSE LET before == Chained(start, path, n - 1) IN
         {relationships[i].target :
             i \in {j \in 1..Len(relationships) :
                        /\ {"source", "target", "type"}
                               \subseteq DOMAIN relationships[j]
                        /\ relationships[j].source \in before
                        /\ relationships[j].type = path[n]}}

\* C13: query(start, [t1..tn]) returns records of the store, and the nodes
\* whose records it returns are exactly the nodes at the end of a chain of
\* stored relationships of types t1..tn, each followed from source to target.
C13_QueryFollowsOutgoingChains ==
    IsQuery =>
        /\ call.raised = NoException
        /\ \A k \in 1..Len(call.result) :
               /\ call.result[k].id \in KnownIds
               /\ call.result[k] = DictGet(nodes, call.result[k].id)
        /\ {call.result[k].id : k \in 1..Len(call.result)}
               = Chained(call.args[1], call.args[2], Len(call.args[2]))
                     \cap KnownIds

\* a-FILED->b, b-COVERED_BY->c: query(a, [FILED, COVERED_BY]) is [c]
C13_Witness ==
    /\ IsQuery
    /\ KnownIds = PathIds
    /\ relationships
           = <<[source |-> "a", target |-> "b", type |-> "FILED",
                properties |-> RelProps],
               [source |-> "b", target |-> "c", type |-> "COVERED_BY",
                properties |-> RelProps]>>
    /\ call.args = <<"a", <<"FILED", "COVERED_BY">> >>
    /\ call.result = <<DictGet(nodes, "c")>>

\* C14: the list returned by query holds each node record at most once, and
\* no more records than the store has nodes.
C14_QueryResultWithoutRepeats ==
    (IsQuery /\ call.raised = NoException) =>
        /\ Distinct(call.result)
        /\ Len(call.result) <= Len(nodes)

\* C15: query returns the empty list, raising nothing, when the start id is
\* not a node id of the store, and when at some step no node of the frontier
\* is the source of a relationship of the type of that step.
C15_QueryEmptyWithoutFailure ==
    IsQuery =>
        LET start == call.args[1]
            path == call.args[2]
        IN /\ start \notin KnownIds
                  => (call.raised = NoException /\ call.result = <<>>)
           /\ (\E n \in 1..Len(path) : Chained(start, path, n) = {})
                  => (call.raised = NoException /\ call.result = <<>>)

IsGetRelationships == call.op = "get_relationships"

\* the positions of the stored relationships with source or target id,
\* and of type filter[1] when a filter is given
SelectedPositions(id, filter) ==
    {i \in 1..Len(relationships) :
        /\ {"source", "target", "type"} \subseteq DOMAIN relationships[i]
        /\ relationships[i].source = id \/ relationships[i].target = id
        /\ filter = NoType \/ relationships[i].type = filter[1]}

\* the list returned by get_relationships is the subsequence of the stored
\* relationships at the selected positions, each once, in stored order
ReturnsSelectedInOrder ==
    LET sel == SelectedPositions(call.args[1], call.args[2]) IN
    /\ call.raised = NoException
    /\ Len(call.result) = Cardinality(sel)
    /\ \A i \in sel :
           call.result[Cardinality({j \in sel : j < i}) + 1] = relationships[i]

\* C16: get_relationships(id, filter) returns the stored relationships with
\* source or target id (of the filter's type when one is given), each once,
\* in insertion order, and the empty list when id is not a node id.
C16_GetRelationshipsSubsequence ==
    IsGetRelationships =>
        /\ ReturnsSelectedInOrder
        /\ call.args[1] \notin KnownIds => call.result = <<>>

IsRead == call.op \in {"get_node", "get_relationships", "query", "find_paths"}

\* C17: in every state reached by add_node, add_relationship and from_json
\* calls, get_node, get_relationships, query and find_paths return for every
\* argument, raising nothing.
C17_ReadsAreTotal == IsRead => call.raised = NoException

---------------------------------------------------------------------------
(* Claims about add_relationship and add_node, checked under Spec *)

\* C18: an add_relationship call that returns appends the relationship
\* (source, target, type, properties) of its arguments at the end of the
\* relationship list and returns the length the list had before the call,
\* leaving the earlier relationships, their order and the node dict as they
\* were; also when an equal relationship is stored and when source = target.
C18_AddRelationshipAppends ==
    [][(call'.op = "add_relationship" /\ call'.raised = NoException)
       => /\ relationships'
                = Append(relationships,
                         [source |-> call'.args[1], target |-> call'.args[2],
                          type |-> call'.args[3], properties |-> call'.args[4]])
          /\ call'.result = Len(relationships)
          /\ nodes' = nodes]_vars

\* the second of two equal self-loops was appended and 1 was returned
C18_Witness ==
    /\ call.op = "add_relationship"
    /\ call.raised = NoException
    /\ call.result = 1
    /\ Len(relationships) = 2
    /\ relationships[1] = relationships[2]
    /\ relationships[2].source = relationships[2].target

\* the relationship record of the arguments of an add_relationship call
AddedRelationship(c) ==
    [source |-> c.args[1], target |-> c.args[2], type |-> c.args[3],
     properties |-> c.args[4]]

\* C19 as stated, for the first operation after the call: when
\* add_relationship has returned i, the relationship of its arguments is at
\* position i of the relationship list after the next operation, whichever
\* it is.
C19_HandleSurvivesAnyCall ==
    [][(call.op = "add_relationship" /\ call.raised = NoException)
       => /\ call.result + 1 <= Len(relationships')
          /\ relationships'[call.result + 1] = AddedRelationship(call)]_vars

\* C19: the index add_relationship returns is the position of the
\* relationship of its arguments, and every operation other than a
\* from_json call that returns keeps every stored relationship at its
\* position.
C19_HandleStableUntilReload ==
    [][/\ (call'.op = "add_relationship" /\ call'.raised = NoException)
           => relationships'[call'.result + 1] = AddedRelationship(call')
       /\ ~(call'.op = "from_json" /\ call'.raised = NoException)
           => \A i \in 1..Len(relationships) :
                  /\ i <= Len(relationships')
                  /\ relationships'[i] = relationships[i]]_vars

\* a from_json call that raised after clearing the node dict has left the
\* two stored relationships at their positions
C19_Witness ==
    /\ call.op = "from_json"
    /\ call.raised # NoException
    /\ nodes = <<>>
    /\ Len(relationships) = 2
    /\ relationships[1] # relationships[2]

\* the node record of the arguments of an add_node call
AddedNode(c) == [id |-> c.args[1], labels |-> c.args[2], properties |-> c.args[3]]

\* C20: every add_node call returns its id; it leaves the record of its
\* arguments under that id, one record per id, every other node record and
\* the relationship list as they were; get_node of that id right after it
\* returns that record; get_node returns the stored record of a node id and
\* None for any other id.
C20_AddNodeLastWriteWins ==
    [][/\ call'.op = "add_node"
           => /\ call'.raised = NoException
              /\ call'.result = call'.args[1]
              /\ DictGet(nodes', call'.args[1]) = AddedNode(call')
              /\ Distinct([i \in 1..Len(nodes') |-> nodes'[i][1]])
              /\ DictKeys(nodes') = DictKeys(nodes) \cup {call'.args[1]}
              /\ \A k \in DictKeys(nodes) \ {call'.args[1]} :
                     DictGet(nodes', k) = DictGet(nodes, k)
              /\ relationships' = relationships
       /\ call'.op = "get_node"
           => /\ call'.raised = NoException
              /\ call'.result = IF call'.args[1] \in DictKeys(nodes)
                                THEN DictGet(nodes, call'.args[1])
                                ELSE PyNone
              /\ (call.op = "add_node" /\ call.args[1] = call'.args[1])
                     => call'.result = AddedNode(call)]_vars

\* add_node was called for the id of the first of two nodes, which was
\* therefore in the store before the call, and which both stored
\* relationships have as their source
C20_Witness ==
    /\ call.op = "add_node"
    /\ Len(nodes) = 2
    /\ nodes[1][1] = call.args[1]
    /\ nodes[1][2].labels = <<"Policy", "Policy">>
    /\ Len(relationships) = 2
    /\ \A i \in 1..Len(relationships) :
           /\ "source" \in DOMAIN relationships[i]
           /\ relationships[i].source = call.args[1]

---------------------------------------------------------------------------
(* Claims about the node records, checked under Spec *)

\* C21: in every state reached by add_node and from_json calls, no node
\* record holds the same label more than once.
C21_LabelsWithoutDuplicates ==
    \A i \in 1..Len(nodes) : Distinct(nodes[i][2].labels)

---------------------------------------------------------------------------
(* Claims about the paths and the search of find_paths *)

\* the step (u, L, v) follows a stored relationship from its source to its
\* target under its type, or from its target to its source under
\* "INVERSE_" and its type
BackedStep(step) ==
    \E i \in 1..Len(relationships) :
        LET rel == relationships[i] IN
        \/ /\ rel.source = step[1]
           /\ rel.target = step[3]
           /\ step[2] = rel.type
        \/ /\ rel.source = step[3]
           /\ rel.target = step[1]
           /\ step[2] = "INVERSE_" \o rel.type

\* C22: every path find_paths returns for start # end has at least one
\* step, starts at start, ends at end, each step starting where the step
\* before it ends, and every step follows a stored relationship forward
\* under its type or backward under "INVERSE_" and its type.
C22_PathsAreBackedChains ==
    (Returned /\ StartArg # EndArg) =>
        \A k \in 1..Len(call.result) :
            LET p == call.result[k] IN
            /\ Len(p) >= 1
            /\ p[1][1] = StartArg
            /\ p[Len(p)][3] = EndArg
            /\ \A n \in 1..(Len(p) - 1) : p[n][3] = p[n + 1][1]
            /\ \A n \in 1..Len(p) : BackedStep(p[n])

\* a returned path of a forward step followed by a reversed step
C22_Witness ==
    /\ Returned
    /\ StartArg # EndArg
    /\ \E k \in 1..Len(call.result) :
           LET p == call.result[k] IN
           /\ Len(p) = 2
           /\ p[1][2] \in RelTypes
           /\ p[2][2] \notin RelTypes

Running == search.status = "running"
Done == search.status = "done"

\* the nodes of the calls of dfs on the stack, from the first call on
Entered == [k \in 1..Len(search.frames) |-> search.frames[k].current_id]

\* no call of dfs is on the stack for a node an earlier call on the stack
\* is at
NoReentry == Distinct(Entered)

\* at most max_depth + 2 calls of dfs are on the stack, for max_depth >= 0
NestingBounded ==
    search.max_depth >= 0 => Len(search.frames) <= search.max_depth + 2

\* C23: find_paths returns on every graph, whatever its cycles, self-loops
\* and parallel relationships, for every max_depth; no call of dfs is
\* made for a node that a call on the stack is already at, and for
\* max_depth >= 0 there are never more than max_depth + 2 calls of dfs on
\* the stack.
C23_SearchTerminates ==
    /\ [](Running => (NoReentry /\ NestingBounded))
    /\ (Running ~> Done)

\* find_paths("a", "c", 2) has returned on the graph of the cycle
\* a -> b -> a
C23_Witness ==
    /\ Done
    /\ search.start_node_id = "a"
    /\ search.target_id = "c"
    /\ search.max_depth = 2
    /\ search.raised = NoException
    /\ Len(relationships) = 2
    /\ relationships[1].source = "a" /\ relationships[1].target = "b"
    /\ relationships[2].source = "b" /\ relationships[2].target = "a"

\* C24: on the graph of create_sample_insurance_graph,
\* find_paths("person1", "provider1") with the default max_depth returns
\* the three paths through policy1, through property1 and straight to
\* claim1, in this order, and query("person1", ["FILED"]) returns the
\* record of claim1 and nothing else.
C24_SampleGraphReads ==
    /\ Len(nodes) = 6
    /\ Len(relationships) = 7
    /\ (call.op = "find_paths"
            /\ call.args = <<"person1", "provider1", DefaultMaxDepth>>)
          => call.result
                = << << <<"person1", "HOLDS", "policy1">>,
                        <<"policy1", "INVERSE_COVERED_BY", "claim1">>,
                        <<"claim1", "SERVICED_BY", "provider1">> >>,
                     << <<"person1", "OWNS", "property1">>,
                        <<"property1", "INVERSE_AFFECTS", "claim1">>,
                        <<"claim1", "SERVICED_BY", "provider1">> >>,
                     << <<"person1", "FILED", "claim1">>,
                        <<"claim1", "SERVICED_BY", "provider1">> >> >>
    /\ (call.op = "query" /\ call.args = <<"person1", <<"FILED">> >>)
          => /\ call.result = <<DictGet(nodes, "claim1")>>
             /\ call.result[1].id = "claim1"
             /\ call.result[1].labels = <<"Claim">>

\* find_paths("person1", "provider1", 3) has returned three paths
C24_Witness ==
    /\ Len(relationships) = 7
    /\ call.op = "find_paths"
    /\ call.args = <<"person1", "provider1", DefaultMaxDepth>>
    /\ call.raised = NoException
    /\ Len(call.result) = 3

---------------------------------------------------------------------------
(* Claims about all the operations, checked under Spec *)

ReadOps == {"get_node", "get_relationships", "query", "find_paths", "to_json"}

\* C25: get_node, get_relationships, query, find_paths and to_json leave
\* the node dict and the relationship list as they were, whatever their
\* arguments and whether they return or raise; a read made again right
\* after itself, with the same arguments, ends as it did the first time.
C25_ReadsArePure ==
    [][call'.op \in ReadOps
       => /\ nodes' = nodes
          /\ relationships' = relationships
          /\ (call.op = call'.op /\ call.args = call'.args)
                => /\ call'.raised = call.raised
                   /\ call.raised = NoException
                         => call'.result = call.result]_vars

\* find_paths has returned a path on a store of two nodes that still has
\* its two relationships
C25_Witness ==
    /\ call.op = "find_paths"
    /\ call.raised = NoException
    /\ call.args[1] # call.args[2]
    /\ Len(call.result) >= 1
    /\ Len(nodes) = 2
    /\ Len(relationships) = 2

\* the node objects of the text of a from_json call
ListedNodes(c) == c.args[1].value.items.nodes

\* C26: in every state reached by add_node, add_relationship and from_json
\* calls the record stored under a key has that key as its id; the text
\* to_json returns lists every node id of the store once; a from_json call
\* that returns leaves, for every id its text lists, the last node object
\* listed for that id, and no other node.
C26_KeysAreIds ==
    /\ \A i \in 1..Len(nodes) : nodes[i][2].id = nodes[i][1]
    /\ call.op = "to_json"
          => LET listed == call.result.value.items.nodes IN
             /\ Distinct([k \in 1..Len(listed) |-> listed[k].id])
             /\ {listed[k].id : k \in 1..Len(listed)} = KnownIds
    /\ (call.op = "from_json" /\ call.raised = NoException)
          => LET listed == ListedNodes(call) IN
             /\ KnownIds = {listed[k].id : k \in 1..Len(listed)}
             /\ \A k \in 1..Len(listed) :
                    (\A m \in (k + 1)..Len(listed) : listed[m].id # listed[k].id)
                        => DictGet(nodes, listed[k].id) = listed[k]

\* from_json has returned on a text that lists one id twice with different
\* records, and has kept the second
C26_Witness ==
    /\ call.op = "from_json"
    /\ call.raised = NoException
    /\ Len(ListedNodes(call)) = 2
    /\ ListedNodes(call)[1].id = ListedNodes(call)[2].id
    /\ ListedNodes(call)[1] # ListedNodes(call)[2]
    /\ Len(nodes) = 1
    /\ nodes[1][2] = ListedNodes(call)[2]

\* C27: query with an empty relationship_path returns the list of the
\* record of start alone when start is a node id of the store, and the
\* empty list when it is not.
C27_QueryEmptyPath ==
    (IsQuery /\ call.args[2] = <<>>) =>
        /\ call.raised = NoException
        /\ call.result = IF call.args[1] \in KnownIds
                         THEN <<DictGet(nodes, call.args[1])>>
                         ELSE <<>>

\* query(id, []) has returned the record of a node that is the source of a
\* stored relationship
C27_Witness ==
    /\ IsQuery
    /\ call.args[2] = <<>>
    /\ Len(call.result) = 1
    /\ call.result[1].id = call.args[1]
    /\ Len(nodes) = 2
    /\ \E i \in 1..Len(relationships) :
           /\ "source" \in DOMAIN relationships[i]
           /\ relationships[i].source = call.args[1]
           /\ relationships[i].target # call.args[1]

\* the sources of the steps of the current path: the nodes on it, the
\* current node excluded
PathSources == {search.path[k][1] : k \in 1..Len(search.path)}

AtEntryOrReturn == Running /\ Top.pc \in {"enter", "return"}

Balanced ==
    /\ search.visited = PathSources
    /\ Len(search.path) = Top.depth

\* the paths recorded so far stay as they were recorded
RecordedPathsKept ==
    /\ Len(search'.all_paths) >= Len(search.all_paths)
    /\ SubSeq(search'.all_paths, 1, Len(search.all_paths)) = search.all_paths

\* C28: when a call of dfs is entered and when it returns, visited is the
\* set of the nodes on the current path without the current node and path
\* has depth steps; every step pushed for a recursive call has been popped
\* when the call has returned (path has one step for each call of dfs in
\* progress but the first); visited.remove never fails; when the search of
\* find_paths is over, visited and path are empty; a recorded path is not
\* altered by the rest of the search.
C28_BacktrackingDiscipline ==
    /\ [](AtEntryOrReturn => Balanced)
    /\ [](Running => Len(search.path) = Len(search.frames) - 1)
    /\ [](search.raised = NoException)
    /\ [](Done => (search.visited = {} /\ search.path = <<>>))
    /\ [][RecordedPathsKept]_vars

\* a path of two steps has been recorded, its second step has been popped
\* and the call of dfs at depth 1 has removed its node from visited and
\* returns
C28_Witness ==
    /\ Running
    /\ Top.pc = "return"
    /\ Top.depth = 1
    /\ Len(search.all_paths) >= 1
    /\ Len(search.all_paths[1]) = 2
    /\ Len(search.path) = 1
    /\ search.visited = {search.start_node_id}

====
